---------------------------- MODULE Spec2Model ----------------------------
(***************************************************************************)
(* Scene Store (SceneManager over the nerfdb.scenes collection) and the    *)
(* Access Gateway (WebServer.tokenRequired and the protected handlers).    *)
(*                                                                         *)
(* Every SceneManager method issues exactly one call to the backing        *)
(* collection (UpdateOne, FindOne or DeleteOne) and then computes its      *)
(* return value from that call's result.  A call is therefore modelled as  *)
(* two steps of a client: Invoke (the caller enters the method) and the    *)
(* method's own action (the single collection call together with the       *)
(* branches that follow it).  Concurrent calls interleave between these    *)
(* steps.                                                                  *)
(***************************************************************************)
EXTENDS Naturals, Sequences, FiniteSets, TLC

\* ------------------------------------------------------------------ bounds
\* Total number of SceneManager calls issued in one behaviour.
MaxCalls == 3

\* ------------------------------------------------------------- store: data
SceneIds == {"s1", "s2"}
Clients == {"c1", "c2"}

\* Top-level keys of a scene document.
Fields == {"name", "video", "sfm", "nerf", "config"}

\* Non-nil sub-resource values (and non-empty names).
Values == {"v1", "v2"}
\* A nil pointer argument, stored as BSON null.
Nil == "nil"
\* The empty string, the zero value of the decoded Name field.
EmptyStr == ""
\* A key that the document does not hold.
Absent == "absent"

\* A document: its "_id" and the top-level keys (Absent when not held).
NewDoc(id) == [k \in Fields \cup {"_id"} |-> IF k = "_id" THEN id ELSE Absent]

\* Custom errors of the package, the driver's sentinel, and any other
\* (transport / infrastructure) error of the driver.
ErrSceneNotFound == "scene not found"
ErrVideoNotFound == "video not found"
ErrSfmNotFound == "sfm not found"
ErrNerfNotFound == "nerf not found"
ErrTrainingConfigNotFound == "training config not found"
ErrNoDocuments == "mongo: no documents in result"
ErrTransport == "transport error"
NoErr == "nil error"

Setters == {"SetTrainingConfig", "SetVideo", "SetSfm", "SetNerf", "SetSceneName"}
Getters == {"GetSceneName", "GetTrainingConfig", "GetVideo", "GetSfm", "GetNerf"}

\* The key a field-level method reads or writes.
FieldOf(kind) ==
    CASE kind \in {"SetTrainingConfig", "GetTrainingConfig"} -> "config"
      [] kind \in {"SetVideo", "GetVideo"} -> "video"
      [] kind \in {"SetSfm", "GetSfm"} -> "sfm"
      [] kind \in {"SetNerf", "GetNerf"} -> "nerf"
      [] kind \in {"SetSceneName", "GetSceneName"} -> "name"

\* The not-found kind of each pointer-typed getter.
NotFoundOf(f) ==
    CASE f = "config" -> ErrTrainingConfigNotFound
      [] f = "video" -> ErrVideoNotFound
      [] f = "sfm" -> ErrSfmNotFound
      [] f = "nerf" -> ErrNerfNotFound

\* Arguments a caller can pass: a pointer setter takes a value or nil, the
\* name setter takes a string (possibly empty).
ArgsOf(kind) == IF kind = "SetSceneName" THEN Values \cup {EmptyStr}
                ELSE Values \cup {Nil}

\* Scene structs passed to SetScene, given as the keys the marshalled struct
\* carries: a full scene, and a scene that carries only name and video.
SceneArgs ==
    { [f \in Fields |-> "v1"],
      [f \in Fields |-> IF f \in {"name", "video"} THEN "v2" ELSE Absent] }

\* ----------------------------------------------------------- gateway: data
Requests == {"r1", "r2"}

\* The handlers SetupRoutes wraps in tokenRequired.
Protected == {"receiveVideo", "getUserSceneHistory", "getSceneMetadata",
              "getSceneThumbnail", "getSceneName"}

StatusOK == 200
StatusAccepted == 202
StatusBadRequest == 400
StatusUnauthorized == 401
StatusInternalServerError == 500

\* Length of the hex form of a primitive.ObjectID (12 bytes).
ObjectIDHexLen == 24
HexChars == {"0", "1", "2", "3", "4", "5", "6", "7", "8", "9",
             "a", "b", "c", "d", "e", "f", "A", "B", "C", "D", "E", "F"}

\* Identifier strings, as sequences of characters.
IdA == [i \in 1..ObjectIDHexLen |-> "a"]
IdB == [i \in 1..ObjectIDHexLen |-> "b"]
IdShort == [i \in 1..(ObjectIDHexLen - 1) |-> "a"]
IdNonHex == [i \in 1..ObjectIDHexLen |-> IF i = 1 THEN "z" ELSE "a"]

\* An id check that looks at the length only.
ObjectIDFromHexLenOnly(s) == Len(s) = ObjectIDHexLen

\* primitive.ObjectIDFromHex(s) returns no error.
ObjectIDFromHexOk(s) ==
    Len(s) = ObjectIDHexLen /\ \A i \in 1..Len(s) : s[i] \in HexChars

\* The server's jwtSecret and a key it does not hold.
JwtSecret == "secret"
OtherKey == "other"

\* Compact token strings a client can present.  wellFormed: three base64
\* segments that decode; key: what the signature was made with; subKind: how
\* the payload carries "sub".
TokenTable ==
    [ tokA      |-> [wellFormed |-> TRUE, alg |-> "HS256", key |-> JwtSecret,
                     subKind |-> "string", sub |-> IdA, expired |-> FALSE],
      tokB      |-> [wellFormed |-> TRUE, alg |-> "HS256", key |-> JwtSecret,
                     subKind |-> "string", sub |-> IdB, expired |-> FALSE],
      tokShort  |-> [wellFormed |-> TRUE, alg |-> "HS256", key |-> JwtSecret,
                     subKind |-> "string", sub |-> IdShort, expired |-> FALSE],
      tokNonHex |-> [wellFormed |-> TRUE, alg |-> "HS256", key |-> JwtSecret,
                     subKind |-> "string", sub |-> IdNonHex, expired |-> FALSE],
      tokForged |-> [wellFormed |-> TRUE, alg |-> "HS256", key |-> OtherKey,
                     subKind |-> "string", sub |-> IdA, expired |-> FALSE],
      tokForgedB |-> [wellFormed |-> TRUE, alg |-> "HS256", key |-> OtherKey,
                     subKind |-> "string", sub |-> IdB, expired |-> FALSE],
      tokNoSubO |-> [wellFormed |-> TRUE, alg |-> "HS256", key |-> OtherKey,
                     subKind |-> "missing", sub |-> <<>>, expired |-> FALSE],
      tokNone   |-> [wellFormed |-> TRUE, alg |-> "none", key |-> OtherKey,
                     subKind |-> "string", sub |-> IdA, expired |-> FALSE],
      tokNoSub  |-> [wellFormed |-> TRUE, alg |-> "HS256", key |-> JwtSecret,
                     subKind |-> "missing", sub |-> <<>>, expired |-> FALSE],
      tokNumSub |-> [wellFormed |-> TRUE, alg |-> "HS256", key |-> JwtSecret,
                     subKind |-> "number", sub |-> <<>>, expired |-> FALSE],
      tokExpired |-> [wellFormed |-> TRUE, alg |-> "HS256", key |-> JwtSecret,
                     subKind |-> "string", sub |-> IdA, expired |-> TRUE],
      garbage   |-> [wellFormed |-> FALSE, alg |-> "HS256", key |-> OtherKey,
                     subKind |-> "missing", sub |-> <<>>, expired |-> FALSE] ]

TokenNames == DOMAIN TokenTable

\* Header values are sequences of symbols: a space, or a word without one.
SP == " "

Headers ==
    { <<>>, <<"Bearer">>, <<"Bearer", SP>>, <<SP, "tokA">>, <<"tokA">>,
      <<"bearer", SP, "tokA">>, <<"Basic", SP, "tokA">>,
      <<"Bearer", "tokA">>, <<"Bearer", SP, SP, "tokA">>,
      <<"Bearer", SP, "tokA", SP>>, <<"Bearer", SP, "tokA", SP, "tokB">>,
      <<"Bearer", SP, "tokA", "tokB">> }
    \cup { <<"Bearer", SP, t>> : t \in TokenNames }

NoLocal == <<"no userID">>
NoCall == [user |-> <<>>, scene |-> <<>>, method |-> "none"]
NoLogin == [status |-> 0, owner |-> <<>>, key |-> "", jwtToken |-> ""]

VARIABLES
    collection,   \* the documents of nerfdb.scenes
    pc,           \* client -> "idle" | "pending" | "done"
    op,           \* client -> the call in progress or last completed
    ret,          \* client -> what the last completed call returned
    pre,          \* client -> whether a document for op.id existed at Invoke
    deleted,      \* scene id -> a DeleteScene succeeded and no write followed
    ncalls,       \* number of calls invoked so far
    failed,       \* caller -> its call to the collection returned a transport error
    rpc,          \* request -> "none" | "received" | "handler" | "responded"
    header,       \* request -> value of its Authorization header
    route,        \* request -> the protected handler its route is wired to
    param,        \* request -> its scene_id path parameter
    locals,       \* request -> c.Locals("userID"), or NoLocal
    status,       \* request -> HTTP status of the response, 0 before it
    parsed,       \* request -> jwt.Parse was called for it
    handlerCalls, \* request -> times the wrapped handler was invoked
    service,      \* request -> the clientService call made for it, or NoCall
    login         \* request -> the answer of loginUser to it, or NoLogin

storevars == <<collection, pc, op, ret, pre, deleted, ncalls, failed>>
gwvars == <<rpc, header, route, param, locals, status, parsed, handlerCalls, service,
            login>>
vars == <<storevars, gwvars>>

NoScene == [f \in Fields |-> Absent]
NoOp == [kind |-> "none", id |-> "s1", val |-> Nil, scene |-> NoScene]
NoRet == [err |-> NoErr, val |-> Nil]

\* ------------------------------------------------- the backing collection
\* The documents the filter {"_id": id} matches.
Match(coll, id) == {d \in coll : d["_id"] = id}

\* An update document given without "$set": it replaces the document.
ApplySetReplace(doc, set) ==
    [k \in DOMAIN doc |-> IF k \in DOMAIN set THEN set[k] ELSE doc[k]]

\* An update that writes only the keys the document does not hold yet.
ApplySetIfAbsent(doc, set) ==
    [k \in DOMAIN doc |->
        IF k \in DOMAIN set /\ set[k] # Absent /\ doc[k] = Absent THEN set[k] ELSE doc[k]]

\* {"$set": set} applied to a document: set maps each key it carries to its
\* new value (Absent: the key is not carried).
ApplySet(doc, set) ==
    [k \in DOMAIN doc |-> IF k \in DOMAIN set /\ set[k] # Absent THEN set[k] ELSE doc[k]]

\* An update whose filter matches every document.
UpdateOneAny(coll, id, set, upsert) ==
    IF coll # {}
    THEN LET d == CHOOSE x \in coll : TRUE
         IN  [coll |-> (coll \ {d}) \cup {ApplySet(d, set)},
              MatchedCount |-> 1, UpsertedCount |-> 0,
              ModifiedCount |-> IF ApplySet(d, set) = d THEN 0 ELSE 1]
    ELSE IF upsert
    THEN [coll |-> coll \cup {ApplySet(NewDoc(id), set)},
          MatchedCount |-> 0, UpsertedCount |-> 1, ModifiedCount |-> 0]
    ELSE [coll |-> coll, MatchedCount |-> 0, UpsertedCount |-> 0, ModifiedCount |-> 0]

\* collection.UpdateOne(ctx, {"_id": id}, {"$set": set}, options): one matched
\* document is updated in place; with no match, upsert inserts a new one.
UpdateOne(coll, id, set, upsert) ==
    IF Match(coll, id) # {}
    THEN LET d == CHOOSE x \in Match(coll, id) : TRUE
         IN  [coll |-> (coll \ {d}) \cup {ApplySet(d, set)},
              MatchedCount |-> 1, UpsertedCount |-> 0,
              ModifiedCount |-> IF ApplySet(d, set) = d THEN 0 ELSE 1]
    ELSE IF upsert
    THEN [coll |-> coll \cup {ApplySet(NewDoc(id), set)},
          MatchedCount |-> 0, UpsertedCount |-> 1, ModifiedCount |-> 0]
    ELSE [coll |-> coll, MatchedCount |-> 0, UpsertedCount |-> 0, ModifiedCount |-> 0]

\* A find that creates the document it does not find.
FindOneUpsert(coll, id) ==
    IF Match(coll, id) = {}
    THEN [coll |-> coll \cup {NewDoc(id)}, err |-> NoErr, doc |-> NewDoc(id)]
    ELSE [coll |-> coll, err |-> NoErr, doc |-> CHOOSE x \in Match(coll, id) : TRUE]

\* collection.FindOne(ctx, {"_id": id}): a matched document, or
\* ErrNoDocuments; the collection is left as it is.
FindOne(coll, id) ==
    IF Match(coll, id) = {}
    THEN [coll |-> coll, err |-> ErrNoDocuments, doc |-> NewDoc(id)]
    ELSE [coll |-> coll, err |-> NoErr, doc |-> CHOOSE x \in Match(coll, id) : TRUE]

\* collection.DeleteOne(ctx, {"_id": id}): removes one matched document.
DeleteOne(coll, id) ==
    IF Match(coll, id) = {} THEN [coll |-> coll, DeletedCount |-> 0]
    ELSE [coll |-> coll \ {CHOOSE x \in Match(coll, id) : TRUE}, DeletedCount |-> 1]

\* The driver's call failed before reaching the collection.
FindFailed(coll, id) == [coll |-> coll, err |-> ErrTransport, doc |-> NewDoc(id)]

\* Decode into a pointer-typed struct field: a missing key and a BSON null
\* both leave the pointer nil.
DecodePtr(doc, f) == IF doc[f] \in {Absent, Nil} THEN Nil ELSE doc[f]

\* Decode into the string-typed Name field: a missing key and a BSON null
\* both leave the zero value.
DecodeStr(doc, f) == IF doc[f] \in {Absent, Nil} THEN EmptyStr ELSE doc[f]

\* The error a method returns when the driver's call itself failed.
FindErr(err) == IF err = ErrNoDocuments THEN ErrSceneNotFound ELSE err

\* ---------------------------------------------------- SceneManager methods
\* Each method is given the driver's outcome: fail = TRUE when the call to
\* the collection returned a transport error (the collection is then left
\* as it was), and otherwise the result of the call.

\* A check that takes an update that changed nothing for a miss.
UpsertErrModified(r) ==
    IF r.ModifiedCount = 0 /\ r.UpsertedCount = 0 THEN ErrSceneNotFound ELSE NoErr

\* The check every setter makes on the UpdateResult.
UpsertErr(r) == IF r.MatchedCount = 0 /\ r.UpsertedCount = 0 THEN ErrSceneNotFound ELSE NoErr

\* An update document that carries every key, nil for the others.
SetOfWhole(f, v) == [g \in Fields |-> IF g = f THEN v ELSE Nil]

\* The update document of a field-level setter: {"$set": {f: v}}.
SetOf(f, v) == [g \in Fields |-> IF g = f THEN v ELSE Absent]

\* A setter that updates without the upsert option.
SetFieldNoUpsert(coll, id, f, v, fail) ==
    IF fail THEN [coll |-> coll, err |-> ErrTransport]
    ELSE LET r == UpdateOne(coll, id, [g \in Fields |-> IF g = f THEN v ELSE Absent], FALSE)
         IN  [coll |-> r.coll,
              err |-> IF r.MatchedCount = 0 /\ r.UpsertedCount = 0
                      THEN ErrSceneNotFound ELSE NoErr]

\* A setter whose check forgets UpsertedCount.
SetFieldMatchedOnly(coll, id, f, v, fail) ==
    IF fail THEN [coll |-> coll, err |-> ErrTransport]
    ELSE LET r == UpdateOne(coll, id, [g \in Fields |-> IF g = f THEN v ELSE Absent], TRUE)
         IN  [coll |-> r.coll,
              err |-> IF r.MatchedCount = 0 THEN ErrSceneNotFound ELSE NoErr]

\* A setter that writes its value under the key of another setter.
SetFieldWrongKey(coll, id, f, v, fail) ==
    IF fail THEN [coll |-> coll, err |-> ErrTransport]
    ELSE LET r == UpdateOne(coll, id, [g \in Fields |-> IF g = "name" THEN v ELSE Absent], TRUE)
         IN  [coll |-> r.coll,
              err |-> IF r.MatchedCount = 0 /\ r.UpsertedCount = 0
                      THEN ErrSceneNotFound ELSE NoErr]

\* A setter that calls the collection again when the call fails, the second
\* call going through.
SetFieldRetry(coll, id, f, v, fail) ==
    LET r == UpdateOne(coll, id, [g \in Fields |-> IF g = f THEN v ELSE Absent], TRUE)
    IN  [coll |-> r.coll,
         err |-> IF r.MatchedCount = 0 /\ r.UpsertedCount = 0
                 THEN ErrSceneNotFound ELSE NoErr]

\* The body shared by SetTrainingConfig, SetVideo, SetSfm, SetNerf and
\* SetSceneName.
SetField(coll, id, f, v, fail) ==
    IF fail THEN [coll |-> coll, err |-> ErrTransport]
    ELSE LET r == UpdateOne(coll, id, SetOf(f, v), TRUE)
         IN  [coll |-> r.coll, err |-> UpsertErr(r)]

SetSceneDoc(coll, id, scene, fail) ==
    IF fail THEN [coll |-> coll, err |-> ErrTransport]
    ELSE LET r == UpdateOne(coll, id, scene, TRUE)
         IN  [coll |-> r.coll, err |-> UpsertErr(r)]

\* A getter that reports a nil sub-resource as a missing scene.
GetPtrFieldConfused(coll, id, f, fail) ==
    LET r == IF fail THEN FindFailed(coll, id) ELSE FindOne(coll, id)
    IN  IF r.err # NoErr THEN [coll |-> r.coll, err |-> FindErr(r.err), val |-> Nil]
        ELSE IF DecodePtr(r.doc, f) = Nil
        THEN [coll |-> r.coll, err |-> ErrSceneNotFound, val |-> Nil]
        ELSE [coll |-> r.coll, err |-> NoErr, val |-> DecodePtr(r.doc, f)]

\* The body shared by GetTrainingConfig, GetVideo, GetSfm and GetNerf.
GetPtrField(coll, id, f, fail) ==
    LET r == IF fail THEN FindFailed(coll, id) ELSE FindOne(coll, id)
    IN  IF r.err # NoErr THEN [coll |-> r.coll, err |-> FindErr(r.err), val |-> Nil]
        ELSE IF DecodePtr(r.doc, f) = Nil
        THEN [coll |-> r.coll, err |-> NotFoundOf(f), val |-> Nil]
        ELSE [coll |-> r.coll, err |-> NoErr, val |-> DecodePtr(r.doc, f)]

\* A name getter that treats the empty name as the other getters treat nil.
GetNameFieldStrict(coll, id, fail) ==
    LET r == IF fail THEN FindFailed(coll, id) ELSE FindOne(coll, id)
    IN  IF r.err # NoErr THEN [coll |-> r.coll, err |-> FindErr(r.err), val |-> EmptyStr]
        ELSE IF DecodeStr(r.doc, "name") = EmptyStr
        THEN [coll |-> r.coll, err |-> ErrSceneNotFound, val |-> EmptyStr]
        ELSE [coll |-> r.coll, err |-> NoErr, val |-> DecodeStr(r.doc, "name")]

\* GetSceneName: FindOne, Decode, return result.Name.
GetNameField(coll, id, fail) ==
    LET r == IF fail THEN FindFailed(coll, id) ELSE FindOne(coll, id)
    IN  IF r.err # NoErr THEN [coll |-> r.coll, err |-> FindErr(r.err), val |-> EmptyStr]
        ELSE [coll |-> r.coll, err |-> NoErr, val |-> DecodeStr(r.doc, "name")]

\* GetScene returns the whole decoded document; the caller's record keeps
\* that a scene was returned.
GetSceneDoc(coll, id, fail) ==
    LET r == IF fail THEN FindFailed(coll, id) ELSE FindOne(coll, id)
    IN  IF r.err # NoErr THEN [coll |-> r.coll, err |-> FindErr(r.err), val |-> Nil]
        ELSE [coll |-> r.coll, err |-> NoErr, val |-> "scene"]

\* A delete that does not look at DeletedCount.
DeleteDocUnchecked(coll, id, fail) ==
    IF fail THEN [coll |-> coll, err |-> ErrTransport]
    ELSE [coll |-> DeleteOne(coll, id).coll, err |-> NoErr]

DeleteDoc(coll, id, fail) ==
    IF fail THEN [coll |-> coll, err |-> ErrTransport]
    ELSE LET r == DeleteOne(coll, id)
         IN  [coll |-> r.coll, err |-> IF r.DeletedCount = 0 THEN ErrSceneNotFound ELSE NoErr]

\* ------------------------------------------------------------ store: steps
StoreIdle ==
    /\ pc = [c \in Clients |-> "idle"]
    /\ op = [c \in Clients |-> NoOp]
    /\ ret = [c \in Clients |-> NoRet]
    /\ pre = [c \in Clients |-> FALSE]
    /\ deleted = [i \in SceneIds |-> FALSE]
    /\ ncalls = 0
    /\ failed = [c \in Clients |-> FALSE]

GatewayIdle ==
    /\ rpc = [r \in Requests |-> "none"]
    /\ header = [r \in Requests |-> <<>>]
    /\ route = [r \in Requests |-> "receiveVideo"]
    /\ param = [r \in Requests |-> <<>>]
    /\ locals = [r \in Requests |-> NoLocal]
    /\ status = [r \in Requests |-> 0]
    /\ parsed = [r \in Requests |-> FALSE]
    /\ handlerCalls = [r \in Requests |-> 0]
    /\ service = [r \in Requests |-> NoCall]
    /\ login = [r \in Requests |-> NoLogin]

\* NewSceneManager over an empty collection; no request received yet.
Init == collection = {} /\ StoreIdle /\ GatewayIdle

\* A caller enters a SceneManager method with its arguments.
Enter(c, o) ==
    /\ pc[c] \in {"idle", "done"}
    /\ ncalls < MaxCalls
    /\ ncalls' = ncalls + 1
    /\ pc' = [pc EXCEPT ![c] = "pending"]
    /\ op' = [op EXCEPT ![c] = o]
    /\ ret' = [ret EXCEPT ![c] = NoRet]
    /\ pre' = [pre EXCEPT ![c] = Match(collection, o.id) # {}]
    /\ failed' = [failed EXCEPT ![c] = FALSE]
    /\ UNCHANGED <<collection, deleted, gwvars>>

Invoke(c) ==
    \/ \E k \in Setters, i \in SceneIds : \E v \in ArgsOf(k) :
          Enter(c, [kind |-> k, id |-> i, val |-> v, scene |-> NoScene])
    \/ \E i \in SceneIds, sc \in SceneArgs :
          Enter(c, [kind |-> "SetScene", id |-> i, val |-> Nil, scene |-> sc])
    \/ \E k \in Getters \cup {"GetScene", "DeleteScene"}, i \in SceneIds :
          Enter(c, [kind |-> k, id |-> i, val |-> Nil, scene |-> NoScene])

\* A setter's collection call and return.
Write(c, fail, r) ==
    /\ failed' = [failed EXCEPT ![c] = fail]
    /\ collection' = r.coll
    /\ ret' = [ret EXCEPT ![c] = [err |-> r.err, val |-> Nil]]
    /\ deleted' = IF r.err = NoErr THEN [deleted EXCEPT ![op[c].id] = FALSE] ELSE deleted
    /\ pc' = [pc EXCEPT ![c] = "done"]
    /\ UNCHANGED <<op, pre, ncalls, gwvars>>

\* A getter's collection call and return.
Read(c, fail, r) ==
    /\ failed' = [failed EXCEPT ![c] = fail]
    /\ collection' = r.coll
    /\ ret' = [ret EXCEPT ![c] = [err |-> r.err, val |-> r.val]]
    /\ pc' = [pc EXCEPT ![c] = "done"]
    /\ UNCHANGED <<op, pre, deleted, ncalls, gwvars>>

Pending(c, kind) == pc[c] = "pending" /\ op[c].kind = kind

SetTrainingConfig(c) ==
    /\ Pending(c, "SetTrainingConfig")
    /\ \E fail \in BOOLEAN : Write(c, fail, SetField(collection, op[c].id, "config", op[c].val, fail))

SetScene(c) ==
    /\ Pending(c, "SetScene")
    /\ \E fail \in BOOLEAN : Write(c, fail, SetSceneDoc(collection, op[c].id, op[c].scene, fail))

SetVideo(c) ==
    /\ Pending(c, "SetVideo")
    /\ \E fail \in BOOLEAN : Write(c, fail, SetField(collection, op[c].id, "video", op[c].val, fail))

SetSfm(c) ==
    /\ Pending(c, "SetSfm")
    /\ \E fail \in BOOLEAN : Write(c, fail, SetField(collection, op[c].id, "sfm", op[c].val, fail))

SetNerf(c) ==
    /\ Pending(c, "SetNerf")
    /\ \E fail \in BOOLEAN : Write(c, fail, SetField(collection, op[c].id, "nerf", op[c].val, fail))

SetSceneName(c) ==
    /\ Pending(c, "SetSceneName")
    /\ \E fail \in BOOLEAN : Write(c, fail, SetField(collection, op[c].id, "name", op[c].val, fail))

GetSceneName(c) ==
    /\ Pending(c, "GetSceneName")
    /\ \E fail \in BOOLEAN : Read(c, fail, GetNameField(collection, op[c].id, fail))

GetTrainingConfig(c) ==
    /\ Pending(c, "GetTrainingConfig")
    /\ \E fail \in BOOLEAN : Read(c, fail, GetPtrField(collection, op[c].id, "config", fail))

GetScene(c) ==
    /\ Pending(c, "GetScene")
    /\ \E fail \in BOOLEAN : Read(c, fail, GetSceneDoc(collection, op[c].id, fail))

GetVideo(c) ==
    /\ Pending(c, "GetVideo")
    /\ \E fail \in BOOLEAN : Read(c, fail, GetPtrField(collection, op[c].id, "video", fail))

GetSfm(c) ==
    /\ Pending(c, "GetSfm")
    /\ \E fail \in BOOLEAN : Read(c, fail, GetPtrField(collection, op[c].id, "sfm", fail))

GetNerf(c) ==
    /\ Pending(c, "GetNerf")
    /\ \E fail \in BOOLEAN : Read(c, fail, GetPtrField(collection, op[c].id, "nerf", fail))

DeleteScene(c) ==
    /\ Pending(c, "DeleteScene")
    /\ \E fail \in BOOLEAN :
         LET r == DeleteDoc(collection, op[c].id, fail)
         IN  /\ collection' = r.coll
             /\ failed' = [failed EXCEPT ![c] = fail]
             /\ ret' = [ret EXCEPT ![c] = [err |-> r.err, val |-> Nil]]
             /\ deleted' = IF r.err = NoErr THEN [deleted EXCEPT ![op[c].id] = TRUE]
                           ELSE deleted
             /\ pc' = [pc EXCEPT ![c] = "done"]
             /\ UNCHANGED <<op, pre, ncalls, gwvars>>

Method(c) ==
    \/ SetTrainingConfig(c)
    \/ SetScene(c)
    \/ SetVideo(c)
    \/ SetSfm(c)
    \/ SetNerf(c)
    \/ SetSceneName(c)
    \/ GetSceneName(c)
    \/ GetTrainingConfig(c)
    \/ GetScene(c)
    \/ GetVideo(c)
    \/ GetSfm(c)
    \/ GetNerf(c)
    \/ DeleteScene(c)

\* One caller issuing calls one after the other.
Next == \E c \in {"c1"} : Invoke(c) \/ Method(c)

Spec == Init /\ [][Next]_vars

\* Two callers, one call each, over a collection that earlier calls filled.
Doc(id, set) == ApplySet(NewDoc(id), set)

RaceInit ==
    { {},
      {Doc("s1", SetOf("nerf", "v1"))},
      {Doc("s1", [f \in Fields |-> "v1"])} }

InitRace == collection \in RaceInit /\ StoreIdle /\ GatewayIdle

NextRace == \E c \in Clients : (pc[c] = "idle" /\ Invoke(c)) \/ Method(c)

SpecRace == InitRace /\ [][NextRace]_vars

\* ---------------------------------------------------------- gateway: code
\* strings.Split(h, " "): the parts between the spaces, empty parts kept.
RECURSIVE Split(_)
Split(h) ==
    IF h = <<>> THEN << <<>> >>
    ELSE LET rest == Split(Tail(h))
         IN  IF Head(h) = SP THEN << <<>> >> \o rest
             ELSE << <<Head(h)>> \o Head(rest) >> \o Tail(rest)

\* A parse that decodes the token and does not verify its signature.
JwtParseUnverified(tokenString, secret) ==
    IF Len(tokenString) # 1 \/ tokenString[1] \notin TokenNames
    THEN [err |-> TRUE, Valid |-> FALSE, claims |-> TokenTable["garbage"]]
    ELSE LET t == TokenTable[tokenString[1]]
         IN  IF ~t.wellFormed \/ t.expired
             THEN [err |-> TRUE, Valid |-> FALSE, claims |-> t]
             ELSE [err |-> FALSE, Valid |-> TRUE, claims |-> t]

\* jwt.Parse(tokenString, keyFunc) with keyFunc returning []byte(secret):
\* err is set for a malformed string, for the "none" algorithm (its key must
\* be the library's marker, not bytes), for a signature that does not verify
\* under secret and for claims that fail validation; Valid is set otherwise.
JwtParse(tokenString, secret) ==
    IF Len(tokenString) # 1 \/ tokenString[1] \notin TokenNames
    THEN [err |-> TRUE, Valid |-> FALSE, claims |-> TokenTable["garbage"]]
    ELSE LET t == TokenTable[tokenString[1]]
         IN  IF ~t.wellFormed \/ t.alg = "none" \/ t.key # secret \/ t.expired
             THEN [err |-> TRUE, Valid |-> FALSE, claims |-> t]
             ELSE [err |-> FALSE, Valid |-> TRUE, claims |-> t]

\* A check that accepts parts after the token.
HeaderFormatLoose(parts) == Len(parts) >= 2 /\ parts[1] = <<"Bearer">>

\* The check on the split header: exactly `Bearer <token>`.
HeaderFormatOk(parts) == Len(parts) = 2 /\ parts[1] = <<"Bearer">>

\* A `sub` claim taken as a user id whatever its type.
SubClaimUnchecked(claims) == [ok |-> TRUE, userID |-> claims.sub]

\* userID, ok := claims["sub"].(string): ok only for a `sub` that is present
\* and a string.
SubClaim(claims) ==
    IF claims.subKind = "string"
    THEN [ok |-> TRUE, userID |-> claims.sub]
    ELSE [ok |-> FALSE, userID |-> NoLocal]

\* The middleware tokenRequired returns, up to the call of the wrapped
\* handler: the status it answers with (0: none, the handler is invoked),
\* whether jwt.Parse was called, and the userID it stores in c.Locals.
TokenRequired(authHeader, secret) ==
    IF authHeader = <<>>
    THEN [status |-> StatusUnauthorized, parsed |-> FALSE, userID |-> NoLocal]
    ELSE LET parts == Split(authHeader)
         IN  IF ~HeaderFormatOk(parts)
             THEN [status |-> StatusUnauthorized, parsed |-> FALSE, userID |-> NoLocal]
             ELSE LET token == JwtParse(parts[2], secret)
                  IN  IF token.err \/ ~token.Valid
                      THEN [status |-> StatusUnauthorized, parsed |-> TRUE,
                            userID |-> NoLocal]
                      ELSE IF ~SubClaim(token.claims).ok
                      THEN [status |-> StatusUnauthorized, parsed |-> TRUE,
                            userID |-> NoLocal]
                      ELSE [status |-> 0, parsed |-> TRUE,
                            userID |-> SubClaim(token.claims).userID]

\* A userID kept in one place shared by all requests.
LocalsSetShared(loc, r, userID) == [x \in DOMAIN loc |-> userID]

\* c.Locals("userID", userID): request-scoped storage.
LocalsSet(loc, r, userID) == [loc EXCEPT ![r] = userID]

\* ---------------------------------------------------------- gateway: steps
\* A request for a protected route arrives.
Receive(r) ==
    /\ rpc[r] = "none"
    /\ \E h \in Headers, h2 \in Protected, p \in {IdA, IdShort, IdNonHex} :
         /\ header' = [header EXCEPT ![r] = h]
         /\ route' = [route EXCEPT ![r] = h2]
         /\ param' = [param EXCEPT ![r] = p]
    /\ rpc' = [rpc EXCEPT ![r] = "received"]
    /\ UNCHANGED <<locals, status, parsed, handlerCalls, service, login, storevars>>

\* The function tokenRequired returns, run for request r.
tokenRequired(r) ==
    /\ rpc[r] = "received"
    /\ LET g == TokenRequired(header[r], JwtSecret)
       IN  /\ parsed' = [parsed EXCEPT ![r] = g.parsed]
           /\ IF g.status # 0
              THEN /\ status' = [status EXCEPT ![r] = g.status]
                   /\ rpc' = [rpc EXCEPT ![r] = "responded"]
                   /\ UNCHANGED <<locals, handlerCalls>>
              ELSE /\ locals' = LocalsSet(locals, r, g.userID)
                   /\ handlerCalls' = [handlerCalls EXCEPT ![r] = @ + 1]
                   /\ rpc' = [rpc EXCEPT ![r] = "handler"]
                   /\ UNCHANGED status
    /\ UNCHANGED <<header, route, param, service, login, storevars>>

\* A handler answers with st, having called clientService (call) or not.
Respond(r, st, call) ==
    /\ status' = [status EXCEPT ![r] = st]
    /\ service' = [service EXCEPT ![r] = call]
    /\ rpc' = [rpc EXCEPT ![r] = "responded"]
    /\ UNCHANGED <<header, route, param, locals, parsed, handlerCalls, login, storevars>>

InHandler(r, h) == rpc[r] = "handler" /\ route[r] = h

Call(m, user, scene) == [user |-> user, scene |-> scene, method |-> m]

\* valid: ParseVideoUploadRequest returned no error; svcErr: the service did.
receiveVideo(r) ==
    /\ InHandler(r, "receiveVideo")
    /\ \E valid \in BOOLEAN, svcErr \in BOOLEAN :
         IF ~ObjectIDFromHexOk(locals[r]) THEN Respond(r, StatusBadRequest, NoCall)
         ELSE IF ~valid THEN Respond(r, StatusBadRequest, NoCall)
         ELSE IF svcErr
         THEN Respond(r, StatusBadRequest, Call("HandleIncomingVideo", locals[r], <<>>))
         ELSE Respond(r, StatusAccepted, Call("HandleIncomingVideo", locals[r], <<>>))

\* valid: ValidateRequest returned no error; svcErr: the service did.
getSceneMetadata(r) ==
    /\ InHandler(r, "getSceneMetadata")
    /\ \E valid \in BOOLEAN, svcErr \in BOOLEAN :
         IF ~valid THEN Respond(r, StatusBadRequest, NoCall)
         ELSE IF ~ObjectIDFromHexOk(locals[r]) THEN Respond(r, StatusBadRequest, NoCall)
         ELSE IF ~ObjectIDFromHexOk(param[r]) THEN Respond(r, StatusBadRequest, NoCall)
         ELSE IF svcErr
         THEN Respond(r, StatusInternalServerError,
                      Call("GetSceneMetadata", locals[r], param[r]))
         ELSE Respond(r, StatusOK, Call("GetSceneMetadata", locals[r], param[r]))

\* A history handler that hands the identity to the service as it is.
getUserSceneHistoryUnchecked(r) ==
    /\ InHandler(r, "getUserSceneHistory")
    /\ \E svcErr \in BOOLEAN :
         IF svcErr
         THEN Respond(r, StatusInternalServerError,
                      Call("GetUserSceneHistory", locals[r], <<>>))
         ELSE Respond(r, StatusOK, Call("GetUserSceneHistory", locals[r], <<>>))

getUserSceneHistory(r) ==
    /\ InHandler(r, "getUserSceneHistory")
    /\ \E svcErr \in BOOLEAN :
         IF ~ObjectIDFromHexOk(locals[r]) THEN Respond(r, StatusBadRequest, NoCall)
         ELSE IF svcErr
         THEN Respond(r, StatusInternalServerError,
                      Call("GetUserSceneHistory", locals[r], <<>>))
         ELSE Respond(r, StatusOK, Call("GetUserSceneHistory", locals[r], <<>>))

\* fileErr: os.ReadFile of the thumbnail path returned an error.
getSceneThumbnail(r) ==
    /\ InHandler(r, "getSceneThumbnail")
    /\ \E valid \in BOOLEAN, svcErr \in BOOLEAN, fileErr \in BOOLEAN :
         IF ~valid THEN Respond(r, StatusBadRequest, NoCall)
         ELSE IF ~ObjectIDFromHexOk(locals[r]) THEN Respond(r, StatusBadRequest, NoCall)
         ELSE IF ~ObjectIDFromHexOk(param[r]) THEN Respond(r, StatusBadRequest, NoCall)
         ELSE IF svcErr \/ fileErr
         THEN Respond(r, StatusInternalServerError,
                      Call("GetSceneThumbnailPath", locals[r], param[r]))
         ELSE Respond(r, StatusOK, Call("GetSceneThumbnailPath", locals[r], param[r]))

getSceneName(r) ==
    /\ InHandler(r, "getSceneName")
    /\ \E valid \in BOOLEAN, svcErr \in BOOLEAN :
         IF ~valid THEN Respond(r, StatusBadRequest, NoCall)
         ELSE IF ~ObjectIDFromHexOk(param[r]) THEN Respond(r, StatusBadRequest, NoCall)
         ELSE IF ~ObjectIDFromHexOk(locals[r]) THEN Respond(r, StatusBadRequest, NoCall)
         ELSE IF svcErr
         THEN Respond(r, StatusInternalServerError,
                      Call("GetSceneName", locals[r], param[r]))
         ELSE Respond(r, StatusOK, Call("GetSceneName", locals[r], param[r]))

\* Requests are handled independently and concurrently.
NextGateway ==
    \E r \in Requests :
        \/ Receive(r)
        \/ tokenRequired(r)
        \/ receiveVideo(r)
        \/ getSceneMetadata(r)
        \/ getUserSceneHistory(r)
        \/ getSceneThumbnail(r)
        \/ getSceneName(r)

SpecGateway == Init /\ [][NextGateway]_vars

\* ------------------------------------------------------------------ login
\* A token that carries the identity under a key other than "sub".
SignedStringNoSub(userID, key) ==
    CHOOSE n \in TokenNames :
        TokenTable[n] = [wellFormed |-> TRUE, alg |-> "HS256", key |-> key,
                         subKind |-> "missing", sub |-> <<>>, expired |-> FALSE]

\* jwt.NewWithClaims(jwt.SigningMethodHS256, {"sub": userID}) followed by
\* SignedString(key): the compact string whose header names HS256, whose
\* payload carries userID as the string "sub" and whose signature was made
\* with key.
SignedString(userID, key) ==
    CHOOSE n \in TokenNames :
        TokenTable[n] = [wellFormed |-> TRUE, alg |-> "HS256", key |-> key,
                         subKind |-> "string", sub |-> userID, expired |-> FALSE]

\* loginUser on a server constructed with jwtSecret k.  valid: ValidateRequest
\* returned no error; the service either fails the login or returns the
\* user's id o.
loginUser(r) ==
    /\ rpc[r] = "none"
    /\ \E k \in {JwtSecret, OtherKey}, valid \in BOOLEAN, svcErr \in BOOLEAN,
          o \in {IdA, IdB} :
         login' = [login EXCEPT ![r] =
            IF ~valid
            THEN [status |-> StatusBadRequest, owner |-> <<>>, key |-> k, jwtToken |-> ""]
            ELSE IF svcErr
            THEN [status |-> StatusUnauthorized, owner |-> <<>>, key |-> k, jwtToken |-> ""]
            ELSE [status |-> StatusOK, owner |-> o, key |-> k,
                  jwtToken |-> SignedString(o, k)]]
    /\ rpc' = [rpc EXCEPT ![r] = "responded"]
    /\ status' = [status EXCEPT ![r] = login'[r].status]
    /\ UNCHANGED <<header, route, param, locals, parsed, handlerCalls, service, storevars>>

\* A client presents, on a protected route, a token a login returned.
Present(r) ==
    /\ rpc[r] = "none"
    /\ \E l \in Requests, h2 \in Protected, p \in {IdA, IdShort, IdNonHex} :
         /\ login[l].status = StatusOK
         /\ header' = [header EXCEPT ![r] = <<"Bearer", SP, login[l].jwtToken>>]
         /\ route' = [route EXCEPT ![r] = h2]
         /\ param' = [param EXCEPT ![r] = p]
    /\ rpc' = [rpc EXCEPT ![r] = "received"]
    /\ UNCHANGED <<locals, status, parsed, handlerCalls, service, login, storevars>>

NextLogin ==
    \E r \in Requests :
        \/ loginUser(r)
        \/ Present(r)
        \/ tokenRequired(r)
        \/ receiveVideo(r)
        \/ getSceneMetadata(r)
        \/ getUserSceneHistory(r)
        \/ getSceneThumbnail(r)
        \/ getSceneName(r)

SpecLogin == Init /\ [][NextLogin]_vars

\* ------------------------------------------------------------------ claims
HasDoc(id) == Match(collection, id) # {}
TheDoc(id) == CHOOSE d \in Match(collection, id) : TRUE
HasDocAfter(id) == Match(collection', id) # {}
TheDocAfter(id) == CHOOSE d \in Match(collection', id) : TRUE

\* Client c's method makes its collection call and returns in this step.
Returns(c) == pc[c] = "pending" /\ pc'[c] = "done"

PtrGetters == {"GetTrainingConfig", "GetVideo", "GetSfm", "GetNerf"}
AllSetters == Setters \cup {"SetScene"}
AllGetters == Getters \cup {"GetScene"}

\* C1: whenever GetVideo, GetSfm, GetNerf or GetTrainingConfig returns (the
\* driver not having failed), it returns SceneNotFound if no document exists
\* for the id, and the sub-resource's own not-found kind if the document
\* exists and does not hold the key; SceneNotFound is returned only when no
\* document exists, the sub-resource kind only when one does.
C1_NotFoundPrecision ==
    [][\A c \in Clients :
         (Returns(c) /\ op[c].kind \in PtrGetters /\ ret'[c].err # ErrTransport) =>
            LET id == op[c].id
                f == FieldOf(op[c].kind)
            IN  /\ ~HasDoc(id) => ret'[c].err = ErrSceneNotFound
                /\ (HasDoc(id) /\ TheDoc(id)[f] = Absent) => ret'[c].err = NotFoundOf(f)
                /\ ret'[c].err = ErrSceneNotFound => ~HasDoc(id)
                /\ ret'[c].err = NotFoundOf(f) => HasDoc(id)]_vars

\* GetNerf has returned NerfNotFound for a document that exists without nerf.
C1_Witness ==
    \E c \in Clients :
        /\ pc[c] = "done" /\ op[c].kind = "GetNerf"
        /\ ret[c].err = ErrNerfNotFound
        /\ HasDoc(op[c].id) /\ TheDoc(op[c].id)["nerf"] = Absent

\* C2: once DeleteScene(id) has succeeded and no setter has written id
\* since, every getter on id and every further DeleteScene(id) that returns
\* (the driver not having failed) returns SceneNotFound.
C2_DeletedStaysNotFound ==
    [][\A c \in Clients :
         (Returns(c) /\ deleted[op[c].id] /\ ret'[c].err # ErrTransport
            /\ op[c].kind \in AllGetters \cup {"DeleteScene"}) =>
         ret'[c].err = ErrSceneNotFound]_vars

\* A second DeleteScene on a deleted scene has returned SceneNotFound.
C2_Witness ==
    \E c \in Clients :
        /\ pc[c] = "done" /\ op[c].kind = "DeleteScene"
        /\ deleted[op[c].id] /\ ret[c].err = ErrSceneNotFound

\* C3: when SetVideo(id, v) and SetSfm(id, s) were both invoked while no
\* document existed for id, and both have returned (the driver not having
\* failed), neither returned an error and exactly one document exists for
\* id, holding video = v and sfm = s.
C3_ConcurrentDisjointWrites ==
    \A c1 \in Clients, c2 \in Clients :
        ( /\ pc[c1] = "done" /\ op[c1].kind = "SetVideo" /\ ~pre[c1]
          /\ pc[c2] = "done" /\ op[c2].kind = "SetSfm" /\ ~pre[c2]
          /\ op[c1].id = op[c2].id
          /\ ret[c1].err # ErrTransport /\ ret[c2].err # ErrTransport ) =>
        /\ ret[c1].err = NoErr /\ ret[c2].err = NoErr
        /\ Cardinality(Match(collection, op[c1].id)) = 1
        /\ TheDoc(op[c1].id)["video"] = op[c1].val
        /\ TheDoc(op[c1].id)["sfm"] = op[c2].val

\* Both calls, invoked on a nonexistent scene, have returned without error.
C3_Witness ==
    \E c1 \in Clients, c2 \in Clients :
        /\ pc[c1] = "done" /\ op[c1].kind = "SetVideo" /\ ~pre[c1]
        /\ pc[c2] = "done" /\ op[c2].kind = "SetSfm" /\ ~pre[c2]
        /\ op[c1].id = op[c2].id /\ op[c1].val = "v1" /\ op[c2].val = "v2"
        /\ ret[c1].err = NoErr /\ ret[c2].err = NoErr

\* No document for id holds a video value.
NoVideo(coll, id) ==
    \A d \in Match(coll, id) : d["video"] \in {Absent, Nil}

\* C7: SetSfm on a scene whose video is not set (no document, or a document
\* without a video value) succeeds and leaves the video key as it was, absent
\* in a document it creates; GetVideo on a document whose video is not set
\* returns VideoNotFound.
C7_StageIndependence ==
    [][\A c \in Clients :
         LET id == op[c].id IN
         /\ (Returns(c) /\ op[c].kind = "SetSfm" /\ ret'[c].err # ErrTransport
               /\ NoVideo(collection, id)) =>
              /\ ret'[c].err = NoErr
              /\ HasDocAfter(id)
              /\ TheDocAfter(id)["sfm"] = op[c].val
              /\ TheDocAfter(id)["video"] =
                    (IF HasDoc(id) THEN TheDoc(id)["video"] ELSE Absent)
         /\ (Returns(c) /\ op[c].kind = "GetVideo" /\ ret'[c].err # ErrTransport
               /\ HasDoc(id) /\ NoVideo(collection, id)) =>
              /\ ret'[c].err = ErrVideoNotFound
              /\ ret'[c].val = Nil]_vars

\* GetVideo has returned VideoNotFound on a scene that holds sfm and no video.
C7_Witness ==
    \E c \in Clients :
        /\ pc[c] = "done" /\ op[c].kind = "GetVideo"
        /\ ret[c].err = ErrVideoNotFound
        /\ HasDoc(op[c].id)
        /\ TheDoc(op[c].id)["sfm"] \in Values
        /\ TheDoc(op[c].id)["video"] = Absent

\* C8: for each of the five setters, applying it twice with the same value
\* leaves the collection as applying it once does (one document for the id,
\* holding the value), and the second application returns no error; two
\* completed calls of the same setter with the same value on the same id
\* both returned no error and left one document holding the value.
C8_UpsertIdempotence ==
    /\ \A id \in SceneIds, k \in Setters : \A v \in ArgsOf(k) :
          LET once == SetField(collection, id, FieldOf(k), v, FALSE)
              twice == SetField(once.coll, id, FieldOf(k), v, FALSE)
          IN  /\ twice.err = NoErr
              /\ twice.coll = once.coll
              /\ Cardinality(Match(twice.coll, id)) = 1
              /\ \A d \in Match(twice.coll, id) : d[FieldOf(k)] = v
    /\ \A c1 \in Clients, c2 \in Clients :
          ( /\ c1 # c2 /\ pc[c1] = "done" /\ pc[c2] = "done"
            /\ op[c1].kind \in Setters /\ op[c2] = op[c1]
            /\ ret[c1].err # ErrTransport /\ ret[c2].err # ErrTransport ) =>
          /\ ret[c1].err = NoErr /\ ret[c2].err = NoErr
          /\ Cardinality(Match(collection, op[c1].id)) = 1
          /\ TheDoc(op[c1].id)[FieldOf(op[c1].kind)] = op[c1].val

\* SetVideo has been called twice with the same value on the same scene.
C8_Witness ==
    \E c1 \in Clients, c2 \in Clients :
        /\ c1 # c2 /\ pc[c1] = "done" /\ pc[c2] = "done"
        /\ op[c1].kind = "SetVideo" /\ op[c2] = op[c1] /\ op[c1].val = "v1"
        /\ ret[c1].err = NoErr /\ ret[c2].err = NoErr
        /\ TheDoc(op[c1].id)["video"] = "v1"

\* C9: a getter leaves the collection as it is whatever it returns, and so
\* does a DeleteScene that returns an error; a document appears for an id
\* only in a step in which a setter on that id returns no error; a setter that
\* returns no error on an id without a document creates exactly one.
C9_OnlyWritesCreate ==
    [][/\ \A c \in Clients :
            /\ (Returns(c) /\ op[c].kind \in AllGetters) =>
                  (collection' = collection /\ deleted' = deleted)
            /\ (Returns(c) /\ op[c].kind = "DeleteScene" /\ ret'[c].err # NoErr) =>
                  (collection' = collection /\ deleted' = deleted)
            /\ (Returns(c) /\ op[c].kind \in AllSetters /\ ret'[c].err = NoErr
                   /\ ~HasDoc(op[c].id)) =>
                  Cardinality(Match(collection', op[c].id)) = 1
       /\ \A id \in SceneIds :
            (~HasDoc(id) /\ HasDocAfter(id)) =>
               \E c \in Clients :
                   /\ Returns(c) /\ op[c].kind \in AllSetters
                   /\ op[c].id = id /\ ret'[c].err = NoErr]_vars

\* GetVideo has returned SceneNotFound and no document exists for the id.
C9_Witness ==
    \E c \in Clients :
        /\ pc[c] = "done" /\ op[c].kind = "GetVideo"
        /\ ret[c].err = ErrSceneNotFound
        /\ ~HasDoc(op[c].id)
        /\ \E i \in SceneIds : HasDoc(i)

\* C10: a setter that has returned, the driver not having failed, returned
\* no error, whether or not a document existed when it was invoked, also when
\* a DeleteScene on the same id ran beside it; in every reachable collection
\* the upsert reports a match or a creation.
C10_SetterNeverNotFound ==
    /\ \A c \in Clients :
          (pc[c] = "done" /\ op[c].kind \in AllSetters) =>
             ret[c].err \in {NoErr, ErrTransport}
    /\ \A id \in SceneIds, f \in Fields :
          LET r == UpdateOne(collection, id, SetOf(f, "v1"), TRUE)
          IN  r.MatchedCount = 1 \/ r.UpsertedCount = 1

\* A setter created the document while a DeleteScene on the same id, invoked
\* before the document existed, removed it: both returned no error.
C10_Witness ==
    \E c1 \in Clients, c2 \in Clients :
        /\ pc[c1] = "done" /\ op[c1].kind = "SetSceneName" /\ ~pre[c1]
        /\ ret[c1].err = NoErr
        /\ pc[c2] = "done" /\ op[c2].kind = "DeleteScene" /\ ~pre[c2]
        /\ op[c2].id = op[c1].id /\ ret[c2].err = NoErr

\* The middleware has run for request r.
Gated(r) == rpc[r] \in {"handler", "responded"}

\* The header is `Bearer`, one space and one presented token string.
IsBearer(h) == Len(h) = 3 /\ h[1] = "Bearer" /\ h[2] = SP /\ h[3] \in TokenNames

\* The token is malformed, or its signature does not verify under the
\* server's secret.
BadSignatureOrMalformed(t) ==
    \/ ~TokenTable[t].wellFormed
    \/ TokenTable[t].key # JwtSecret
    \/ TokenTable[t].alg = "none"

\* C4: a request whose header is `Bearer <t>`, t malformed or not signed
\* with the server's secret, is answered Unauthorized once the middleware has
\* run; its handler is never invoked and no service call is made for it.
C4_BadTokenRejected ==
    \A r \in Requests :
        (Gated(r) /\ IsBearer(header[r]) /\ BadSignatureOrMalformed(header[r][3])) =>
        /\ rpc[r] = "responded"
        /\ status[r] = StatusUnauthorized
        /\ handlerCalls[r] = 0
        /\ locals[r] = NoLocal
        /\ service[r] = NoCall

\* A token signed with another key has been answered Unauthorized.
C4_Witness ==
    \E r \in Requests :
        /\ rpc[r] = "responded" /\ header[r] = <<"Bearer", SP, "tokForged">>
        /\ status[r] = StatusUnauthorized /\ handlerCalls[r] = 0

\* The header holds exactly one space, and `Bearer` alone before it.
ExactForm(h) ==
    \E i \in 1..Len(h) :
        /\ h[i] = SP
        /\ \A j \in 1..Len(h) : h[j] = SP => j = i
        /\ SubSeq(h, 1, i - 1) = <<"Bearer">>

\* C5: a request with no Authorization header, or one that is not two
\* space-separated parts of which the first is `Bearer`, is answered
\* Unauthorized once the middleware has run; jwt.Parse is not called for it
\* and its handler is never invoked.
C5_MalformedHeaderRejected ==
    \A r \in Requests :
        (Gated(r) /\ ~ExactForm(header[r])) =>
        /\ rpc[r] = "responded"
        /\ status[r] = StatusUnauthorized
        /\ ~parsed[r]
        /\ handlerCalls[r] = 0
        /\ service[r] = NoCall

\* A header with a part after the token has been answered Unauthorized
\* while another request had no header at all.
C5_Witness ==
    \E r \in Requests, q \in Requests :
        /\ rpc[r] = "responded" /\ header[r] = <<"Bearer", SP, "tokA", SP, "tokB">>
        /\ status[r] = StatusUnauthorized /\ ~parsed[r] /\ handlerCalls[r] = 0
        /\ rpc[q] = "responded" /\ header[q] = <<>>
        /\ status[q] = StatusUnauthorized /\ ~parsed[q] /\ handlerCalls[q] = 0

\* The token of a header verifies under the server's secret and carries a
\* string `sub`.
Accepted(h) ==
    /\ IsBearer(h)
    /\ LET t == TokenTable[h[3]]
       IN  /\ t.wellFormed /\ t.key = JwtSecret /\ t.alg # "none" /\ ~t.expired
           /\ t.subKind = "string"

\* C6: a handler is invoked only for a request whose token the middleware
\* verified, at most once per request and exactly once for an accepted one;
\* from its invocation on, the request's userID is the `sub` of the request's
\* own token, and a service call made for the request carries that identity.
C6_HandlerBoundToOwnIdentity ==
    \A r \in Requests :
        /\ handlerCalls[r] <= 1
        /\ (handlerCalls[r] = 1) = (Gated(r) /\ Accepted(header[r]))
        /\ rpc[r] = "handler" => handlerCalls[r] = 1
        /\ handlerCalls[r] = 1 =>
              /\ parsed[r]
              /\ locals[r] = TokenTable[header[r][3]].sub
        /\ service[r] # NoCall =>
              /\ handlerCalls[r] = 1
              /\ service[r].user = TokenTable[header[r][3]].sub

\* Two requests with different identities are in their handlers at once.
C6_Witness ==
    /\ rpc["r1"] = "handler" /\ locals["r1"] = IdA
    /\ rpc["r2"] = "handler" /\ locals["r2"] = IdB
    /\ handlerCalls["r1"] = 1 /\ handlerCalls["r2"] = 1

\* C11: a token that loginUser issued for owner o, presented to the gateway,
\* is accepted with userID = o when the issuing server held the gateway's
\* secret, and is answered Unauthorized without its handler being invoked
\* when the issuing server held another secret.
C11_TokenRoundTrip ==
    \A q \in Requests, l \in Requests :
        ( /\ Gated(q) /\ login[l].status = StatusOK
          /\ header[q] = <<"Bearer", SP, login[l].jwtToken>> ) =>
        IF login[l].key = JwtSecret
        THEN /\ handlerCalls[q] = 1
             /\ locals[q] = login[l].owner
        ELSE /\ status[q] = StatusUnauthorized
             /\ handlerCalls[q] = 0
             /\ locals[q] = NoLocal

\* A token issued for IdB under the gateway's secret has been accepted and
\* bound IdB to the request.
C11_Witness ==
    \E q \in Requests, l \in Requests :
        /\ login[l].status = StatusOK /\ login[l].key = JwtSecret
        /\ login[l].owner = IdB
        /\ header[q] = <<"Bearer", SP, login[l].jwtToken>>
        /\ rpc[q] = "handler" /\ locals[q] = IdB

\* The request presents a well-formed, unexpired token signed HS256 with the
\* server's secret.
CorrectlySigned(r) ==
    /\ IsBearer(header[r])
    /\ LET t == TokenTable[header[r][3]]
       IN  t.wellFormed /\ t.key = JwtSecret /\ t.alg = "HS256" /\ ~t.expired

\* C12: a correctly signed, well-formed token whose `sub` is missing or not a
\* string is answered Unauthorized and its handler is not invoked; one whose
\* `sub` is a string is let through with that string as userID, whether or
\* not the string can be the id of any user.
C12_SubMustBeString ==
    \A r \in Requests :
        (Gated(r) /\ CorrectlySigned(r)) =>
            IF TokenTable[header[r][3]].subKind \in {"missing", "number"}
            THEN /\ status[r] = StatusUnauthorized
                 /\ handlerCalls[r] = 0
                 /\ locals[r] = NoLocal
                 /\ service[r] = NoCall
            ELSE /\ handlerCalls[r] = 1
                 /\ locals[r] = TokenTable[header[r][3]].sub

\* One request with a numeric `sub` was parsed and answered Unauthorized;
\* another, whose `sub` is a string that is no ObjectID, is in its handler.
C12_Witness ==
    \E r \in Requests, q \in Requests :
        /\ rpc[r] = "responded" /\ CorrectlySigned(r)
        /\ TokenTable[header[r][3]].subKind = "number"
        /\ parsed[r] /\ status[r] = StatusUnauthorized
        /\ rpc[q] = "handler" /\ CorrectlySigned(q) /\ locals[q] = IdNonHex

\* C13: whenever GetSceneName returns (the driver not having failed), it
\* returns SceneNotFound if no document exists for the id; if the document
\* exists it returns no error, and the empty name both when the name was
\* never set and when it was set to the empty string, so that the two are not
\* told apart; no name-specific not-found kind is ever returned.
C13_NameNeverNotFound ==
    [][\A c \in Clients :
         (Returns(c) /\ op[c].kind = "GetSceneName" /\ ret'[c].err # ErrTransport) =>
            LET id == op[c].id IN
            /\ ~HasDoc(id) => ret'[c].err = ErrSceneNotFound
            /\ HasDoc(id) =>
                 /\ ret'[c].err = NoErr
                 /\ TheDoc(id)["name"] \in {Absent, EmptyStr} => ret'[c].val = EmptyStr
                 /\ TheDoc(id)["name"] \notin {Absent, EmptyStr} =>
                        ret'[c].val = TheDoc(id)["name"]]_vars

\* GetSceneName has returned the empty name without error for a document
\* whose name was never set.
C13_Witness ==
    \E c \in Clients :
        /\ pc[c] = "done" /\ op[c].kind = "GetSceneName"
        /\ ret[c] = [err |-> NoErr, val |-> EmptyStr]
        /\ HasDoc(op[c].id) /\ TheDoc(op[c].id)["name"] = Absent

\* C14: of two callers running the same field-level setter on the same id,
\* each one whose driver call does not fail returns no error; at the step a
\* write takes effect the id has exactly one document and its key holds
\* exactly that write's value, the earlier write's value having been held
\* until then; so the value left is the one of the write that took effect
\* last, never a mixture and never an absent key.
C14_LastWriteWins ==
    [][\A c \in Clients, d \in Clients :
         ( /\ c # d /\ Returns(c) /\ op[c].kind \in Setters
           /\ ret'[c].err # ErrTransport
           /\ pc[d] \in {"pending", "done"}
           /\ op[d].kind = op[c].kind /\ op[d].id = op[c].id ) =>
            LET id == op[c].id
                f == FieldOf(op[c].kind)
            IN  /\ ret'[c].err = NoErr
                /\ Cardinality(Match(collection', id)) = 1
                /\ TheDocAfter(id)[f] = op[c].val
                /\ (pc[d] = "done" /\ ret[d].err = NoErr) =>
                        /\ HasDoc(id)
                        /\ TheDoc(id)[f] = op[d].val
                        /\ TheDocAfter(id)[f] \in {op[c].val, op[d].val}]_vars

\* Both callers invoked SetVideo on an id that had no document, with different
\* values; both returned without error and the document holds c1's value.
C14_Witness ==
    /\ pc["c1"] = "done" /\ pc["c2"] = "done"
    /\ op["c1"].kind = "SetVideo" /\ op["c2"].kind = "SetVideo"
    /\ op["c1"].id = op["c2"].id
    /\ op["c1"].val = "v1" /\ op["c2"].val = "v2"
    /\ ~pre["c1"] /\ ~pre["c2"]
    /\ ret["c1"].err = NoErr /\ ret["c2"].err = NoErr
    /\ HasDoc(op["c1"].id) /\ TheDoc(op["c1"].id)["video"] = "v1"

\* The three handlers that take a scene id from the route.
SceneRoutes == {"getSceneMetadata", "getSceneThumbnail", "getSceneName"}

\* C15: in getSceneMetadata, getSceneThumbnail and getSceneName a scene id
\* that is not 24 hexadecimal characters is answered BadRequest, and the
\* service is never called for the request.
C15_BadSceneIdRejected ==
    \A r \in Requests :
        ( /\ handlerCalls[r] = 1 /\ route[r] \in SceneRoutes
          /\ param[r] \in {IdShort, IdNonHex} ) =>
            /\ service[r] = NoCall
            /\ rpc[r] = "responded" => status[r] = StatusBadRequest

\* getSceneThumbnail was invoked for a caller with a valid id and a scene id
\* of 24 characters of which one is no hexadecimal digit, and has answered.
C15_Witness ==
    \E r \in Requests :
        /\ rpc[r] = "responded" /\ handlerCalls[r] = 1
        /\ route[r] = "getSceneThumbnail"
        /\ locals[r] = IdA /\ param[r] = IdNonHex
        /\ status[r] = StatusBadRequest /\ service[r] = NoCall

\* C16: when the collection call of a setter, a getter or DeleteScene
\* returns a transport error, the method returns that error itself, neither
\* SceneNotFound nor a sub-resource not-found nor success, and no value; the
\* collection is left as it was, so no second call took effect; and a method
\* returns the transport error only when its call did.
C16_TransportErrorPropagates ==
    [][\A c \in Clients :
         Returns(c) =>
            /\ failed'[c] =>
                 /\ ret'[c].err = ErrTransport
                 /\ ret'[c].val \in {Nil, EmptyStr}
                 /\ collection' = collection
                 /\ deleted' = deleted
            /\ ret'[c].err = ErrTransport => failed'[c]]_vars

\* SetVideo has returned the transport error of its call on an id that had no
\* document, and none was created.
C16_Witness ==
    \E c \in Clients :
        /\ pc[c] = "done" /\ op[c].kind = "SetVideo" /\ op[c].val = "v1"
        /\ failed[c] /\ ret[c].err = ErrTransport
        /\ ~pre[c] /\ ~HasDoc(op[c].id)

\* C17: at the step a field-level setter on id takes effect, in any
\* interleaving of two callers, the documents of all other ids are left as
\* they were, and in the document of id every key other than the setter's own
\* keeps its value, or stays absent if it was absent or the document is new.
C17_SetterFrame ==
    [][\A c \in Clients :
         (Returns(c) /\ op[c].kind \in Setters) =>
            LET id == op[c].id
                f == FieldOf(op[c].kind)
            IN  /\ \A j \in SceneIds \ {id} : Match(collection', j) = Match(collection, j)
                /\ Cardinality(Match(collection', id)) <= 1
                /\ ~HasDocAfter(id) => ~HasDoc(id)
                /\ HasDocAfter(id) =>
                     \A g \in Fields \ {f} :
                        TheDocAfter(id)[g] =
                            (IF HasDoc(id) THEN TheDoc(id)[g] ELSE Absent)]_vars

\* One caller's SetSfm changed sfm of a full document and nothing else in it,
\* while the other caller's setter created the document of another id.
C17_Witness ==
    \E c \in Clients, d \in Clients :
        /\ c # d /\ pc[c] = "done" /\ pc[d] = "done"
        /\ op[c].kind = "SetSfm" /\ op[c].id = "s1" /\ op[c].val = "v2"
        /\ op[d].kind = "SetVideo" /\ op[d].id = "s2"
        /\ HasDoc("s1") /\ HasDoc("s2")
        /\ TheDoc("s1") = [Doc("s1", [f \in Fields |-> "v1"]) EXCEPT !["sfm"] = "v2"]
        /\ TheDoc("s2") = Doc("s2", SetOf("video", op[d].val))

\* The sub-resources of id a caller finds present: those whose getter would
\* return a value rather than a not-found error or the empty name.
PresentIn(coll, id) ==
    IF Match(coll, id) = {} THEN {}
    ELSE LET d == CHOOSE x \in Match(coll, id) : TRUE
         IN  {f \in Fields : IF f = "name" THEN DecodeStr(d, f) # EmptyStr
                                           ELSE DecodePtr(d, f) # Nil}

FieldOps == Setters \cup Getters

\* Only DeleteScene takes a document out of existence.
OnlyDeleteRemoves ==
    \A c \in Clients :
        (Returns(c) /\ \E j \in SceneIds : HasDoc(j) /\ ~HasDocAfter(j)) =>
            /\ op[c].kind = "DeleteScene"
            /\ \A j \in SceneIds : (HasDoc(j) /\ ~HasDocAfter(j)) => j = op[c].id

\* C18 as stated: while a document exists, no step of a field-level setter or
\* getter takes a sub-resource out of the set a caller finds present, and
\* only DeleteScene takes a document out of existence.
C18_PresentNeverShrinks ==
    [][/\ \A c \in Clients :
            (Returns(c) /\ op[c].kind \in FieldOps) =>
                \A j \in SceneIds :
                    HasDoc(j) => /\ HasDocAfter(j)
                                 /\ PresentIn(collection, j) \subseteq PresentIn(collection', j)
       /\ OnlyDeleteRemoves]_vars

\* C18: while a document exists, no step of a field-level getter, or of a
\* field-level setter given a value other than nil or the empty name, takes a
\* sub-resource out of the set a caller finds present; a setter given nil or
\* the empty name takes out at most its own sub-resource; and only
\* DeleteScene takes a document out of existence.
C18_PresentShrinksOnlyByNil ==
    [][/\ \A c \in Clients :
            (Returns(c) /\ op[c].kind \in FieldOps) =>
                \A j \in SceneIds :
                    HasDoc(j) =>
                        /\ HasDocAfter(j)
                        /\ (op[c].kind \in Getters \/ op[c].val \notin {Nil, EmptyStr}) =>
                              PresentIn(collection, j) \subseteq PresentIn(collection', j)
                        /\ PresentIn(collection, j) \ PresentIn(collection', j)
                              \subseteq (IF j = op[c].id THEN {FieldOf(op[c].kind)} ELSE {})
       /\ OnlyDeleteRemoves]_vars

\* Three setters with values have taken a document from nonexistent to video,
\* to video and sfm, to video, sfm and nerf present.
C18_Witness ==
    \E c \in Clients :
        /\ pc[c] = "done" /\ ncalls = 3
        /\ op[c].kind = "SetNerf" /\ op[c].val = "v1" /\ ret[c].err = NoErr
        /\ PresentIn(collection, op[c].id) = {"video", "sfm", "nerf"}

\* Caller d's getter returns in this step, its driver call not failing, after
\* caller c's setter of the same sub-resource of the same id returned no
\* error; with two callers of one call each, nothing wrote in between.
GetAfterSet(c, d) ==
    /\ c # d /\ Returns(d) /\ ~failed'[d]
    /\ op[d].kind \in PtrGetters
    /\ pc[c] = "done" /\ op[c].kind \in Setters /\ ret[c].err = NoErr
    /\ FieldOf(op[c].kind) = FieldOf(op[d].kind)
    /\ op[c].id = op[d].id

\* C19 as stated: for video, sfm, nerf and trainingConfig and every value v
\* the setter accepts, nil included, getX after setX(id, v) returns v and no
\* error.
C19_RoundTripEveryValue ==
    [][\A c \in Clients, d \in Clients :
         GetAfterSet(c, d) => ret'[d] = [err |-> NoErr, val |-> op[c].val]]_vars

\* C19: for video, sfm, nerf and trainingConfig, getX after setX(id, v)
\* returns v and no error for every non-nil v; after setX(id, nil), which
\* also returns no error, getX returns the sub-resource's not-found error.
C19_RoundTripNonNil ==
    [][\A c \in Clients, d \in Clients :
         GetAfterSet(c, d) =>
            IF op[c].val # Nil
            THEN ret'[d] = [err |-> NoErr, val |-> op[c].val]
            ELSE ret'[d] = [err |-> NotFoundOf(FieldOf(op[d].kind)), val |-> Nil]]_vars

\* GetTrainingConfig has returned the value SetTrainingConfig stored in a
\* document that held another value before.
C19_Witness ==
    \E c \in Clients, d \in Clients :
        /\ c # d /\ pc[c] = "done" /\ pc[d] = "done"
        /\ op[c].kind = "SetTrainingConfig" /\ op[c].val = "v2" /\ ret[c].err = NoErr
        /\ op[d].kind = "GetTrainingConfig" /\ op[d].id = op[c].id
        /\ pre[c] /\ ret[d] = [err |-> NoErr, val |-> "v2"]

\* Callers c and d ran DeleteScene(id) and a field-level setter on id, both
\* invoked while id had a document, and both have returned, neither driver
\* call failing.
DeleteRacedSet(c, d) ==
    /\ c # d /\ pc[c] = "done" /\ pc[d] = "done"
    /\ op[c].kind = "DeleteScene" /\ op[d].kind \in Setters
    /\ op[c].id = op[d].id
    /\ pre[c] /\ pre[d]
    /\ ~failed[c] /\ ~failed[d]

\* C20: when DeleteScene(id) and setX(id, v) run concurrently on an existing
\* scene, both return no error, and in the end either id has no document, or
\* it has exactly one document that holds X = v and no other sub-resource;
\* it has none exactly when the delete took effect last.
C20_DeleteRacesSet ==
    \A c \in Clients, d \in Clients :
        DeleteRacedSet(c, d) =>
            LET id == op[c].id IN
            /\ ret[c].err = NoErr /\ ret[d].err = NoErr
            /\ \/ ~HasDoc(id)
               \/ /\ Cardinality(Match(collection, id)) = 1
                  /\ TheDoc(id) = Doc(id, SetOf(FieldOf(op[d].kind), op[d].val))
            /\ deleted[id] <=> ~HasDoc(id)

\* DeleteScene took effect before SetSfm on a full document: the document
\* was recreated and holds sfm alone.
C20_Witness ==
    \E c \in Clients, d \in Clients :
        /\ DeleteRacedSet(c, d)
        /\ op[d].kind = "SetSfm" /\ op[d].val = "v2"
        /\ HasDoc(op[c].id)
        /\ TheDoc(op[c].id)["sfm"] = "v2" /\ TheDoc(op[c].id)["video"] = Absent

\* The request presents a correctly signed token whose `sub` is a string of
\* 23 characters, or of 24 characters one of which is no hexadecimal digit.
BadIdentity(r) ==
    /\ CorrectlySigned(r)
    /\ TokenTable[header[r][3]].subKind = "string"
    /\ TokenTable[header[r][3]].sub \in {IdShort, IdNonHex}

\* C21: a request whose correctly signed token carries a string `sub` that is
\* not a valid 24-hex identifier passes the gateway, its handler being
\* invoked with that string as userID; whichever protected handler it is, it
\* answers BadRequest and the service is never called for the request.
C21_BadIdentityStopsInHandler ==
    \A r \in Requests :
        (Gated(r) /\ BadIdentity(r)) =>
            /\ handlerCalls[r] = 1
            /\ locals[r] = TokenTable[header[r][3]].sub
            /\ service[r] = NoCall
            /\ rpc[r] = "responded" => status[r] = StatusBadRequest

\* receiveVideo and getSceneName, the latter given a valid scene id, have
\* both answered BadRequest to tokens with a non-hex and a short `sub`.
C21_Witness ==
    \E r \in Requests, q \in Requests :
        /\ rpc[r] = "responded" /\ BadIdentity(r) /\ locals[r] = IdNonHex
        /\ route[r] = "receiveVideo" /\ status[r] = StatusBadRequest
        /\ rpc[q] = "responded" /\ BadIdentity(q) /\ locals[q] = IdShort
        /\ route[q] = "getSceneName" /\ param[q] = IdA
        /\ status[q] = StatusBadRequest /\ service[q] = NoCall

=============================================================================
